---- MODULE Spec2Model ----
(***************************************************************************)
(* mpd-fzf: the database parser, the grouping pass, the line formatter and *)
(* the selection bridge of the current program (the one whose delimiter is *)
(* EN SPACE and which has the _play and _queue subcommands).               *)
(*                                                                         *)
(* Text is a sequence of codepoints, each codepoint a one-element TLA+     *)
(* string.  Two codepoints that are not ASCII carry a name: "ENSP" is      *)
(* U+2002 EN SPACE (the delimiter) and "CJK" is a double-width ideograph.  *)
(***************************************************************************)
EXTENDS Integers, Sequences, FiniteSets, TLC

VARIABLES
    pc,        \* where the process is
    exitCode,  \* -1 while running, then the status given to os.Exit (0 on return from main)
    stderr,    \* the message printed by fail, <<>> when none
    args,      \* os.Args[1:]
    scanned,   \* the lines scan.Scan() has delivered so far
    dirstack,  \* parse: dirstack
    track,     \* parse: track, a pointer (an index of heap)
    tracks,    \* parse: tracks, a list of pointers
    heap,      \* the Track records allocated by new(Track)
    cols,      \* the width reported by stty size
    shuffled,  \* the list returned by groupByArtist
    emitted,   \* the lines written to the stdin of fzf
    uiStarted, \* fzf.Start() has succeeded
    uiStatus,  \* how fzf ended: its exit status, or a signal; Running before that
    waitErr,   \* the error returned by fzf.Wait()
    fields,    \* cmdSelect: fields
    path,      \* cmdSelect: path
    pos,       \* mpcSelect: pos
    found,     \* mpcSelect: found
    issued,    \* the mpc commands run by this process, in order
    queue,     \* the play queue of mpd, a list of file paths
    playing,   \* the queue position mpd plays, 0 when stopped
    runs       \* how many times the selection entrypoint has been started

vars == <<pc, exitCode, stderr, args, scanned, dirstack, track, tracks, heap, cols,
          shuffled, emitted, uiStarted, uiStatus, waitErr, fields, path, pos, found, issued,
          queue, playing, runs>>

parserVars == <<scanned, dirstack, track, tracks, heap>>
listVars == <<cols, shuffled, emitted, uiStarted, uiStatus, waitErr>>
selectVars == <<fields, path, pos, found, issued, queue, playing, runs>>

(***************************************************************************)
(* Bounds of the model.                                                    *)
(***************************************************************************)
MaxLines == 5      \* lines of the database stream read by the parser alone
MaxListLines == 3  \* lines of the database stream in a run of the whole list pipeline
MaxGroup == 4      \* tracks given to groupByArtist alone
MaxQueue == 2      \* entries of the play queue before the first selection
MaxRuns == 2       \* selections made one after the other
MaxCols == 32      \* columns of the terminal
MaxDigits == 4     \* digits of a duration text, beside the few longer ones drawn
MaxLineLen == 4    \* codepoints of a line given to keyValue alone

(***************************************************************************)
(* Text.                                                                   *)
(***************************************************************************)
delimiter == "ENSP"

kDirectory == <<"d", "i", "r", "e", "c", "t", "o", "r", "y">>
kEnd == <<"e", "n", "d">>
kSongBegin == <<"s", "o", "n", "g", "_", "b", "e", "g", "i", "n">>
kSongEnd == <<"s", "o", "n", "g", "_", "e", "n", "d">>
kAlbum == <<"A", "l", "b", "u", "m">>
kArtist == <<"A", "r", "t", "i", "s", "t">>
kDate == <<"D", "a", "t", "e">>
kGenre == <<"G", "e", "n", "r", "e">>
kTime == <<"T", "i", "m", "e">>
kTitle == <<"T", "i", "t", "l", "e">>
kMtime == <<"m", "t", "i", "m", "e">>

cMp3 == <<"c", ".", "m", "p", "3">>

\* strings.Index(s, c) for a one-codepoint c, counted from 1; 0 when c is not in s.
Index(s, c) ==
    IF \E i \in 1..Len(s) : s[i] = c
    THEN CHOOSE i \in 1..Len(s) : s[i] = c /\ \A j \in 1..(i - 1) : s[j] # c
    ELSE 0

\* s[i:] of Go, i counted from 1 here.
From(s, i) == SubSeq(s, i, Len(s))

RECURSIVE Concat(_)
Concat(ss) == IF ss = <<>> THEN <<>> ELSE Head(ss) \o Concat(Tail(ss))

\* strings.HasSuffix
HasSuffix(s, suffix) ==
    /\ Len(s) >= Len(suffix)
    /\ SubSeq(s, Len(s) - Len(suffix) + 1, Len(s)) = suffix

(***************************************************************************)
(* fail, failOn.                                                           *)
(***************************************************************************)
msgCorrupted == <<"Invalid directory state. Corrupted database?">>
msgRead == <<"read error">>
msgUsage == <<"Usage: mpd-fzf (no arguments)">>
msgSplit == <<"mpd-fzf: split assertion failure">>
msgMpc == <<"mpc failed">>
msgEnv == <<"environment error">>

\* How a child process stands: not ended, exited with a status, ended by a signal.
Running == [kind |-> "running", code |-> 0]
Exited(n) == [kind |-> "exit", code |-> n]
Signaled == [kind |-> "signal", code |-> 0]

\* An error value: nil, or an error with the text of its Error().
NoError == [nil |-> TRUE, text |-> <<>>]
Error(text) == [nil |-> FALSE, text |-> text]

failPrintsOnly(message) ==
    /\ stderr' = message
    /\ UNCHANGED <<pc, exitCode>>

\* fail(err) with err # nil: the message on standard error, os.Exit(1).
fail(message) ==
    /\ stderr' = message
    /\ exitCode' = 1
    /\ pc' = "exit"

(***************************************************************************)
(* Stack.                                                                  *)
(***************************************************************************)
Push(s, dirname) == Append(s, dirname)

\* The guard of DiscardTop: failOn(len(stack) <= 0, ...).
DiscardTopNeverFails(s) == FALSE

DiscardTopFails(s) == Len(s) <= 0

DiscardTop(s) == SubSeq(s, 1, Len(s) - 1)

(***************************************************************************)
(* keyValue.                                                               *)
(***************************************************************************)
keyval(line) ==
    LET i == Index(line, ":") IN
    IF i = 0 \/ i = Len(line) THEN <<line, <<>>>>
    ELSE <<SubSeq(line, 1, i - 1), From(line, i + 2)>>

keyValue(line) ==
    LET i == Index(line, ":") IN
    IF i = 0 THEN <<line, <<>>>>
    ELSE IF i = Len(line) THEN <<SubSeq(line, 1, i - 1), <<>>>>
    ELSE LET n == IF line[i + 1] # " " THEN 1 ELSE 2
         IN <<SubSeq(line, 1, i - 1), From(line, i + n)>>

(***************************************************************************)
(* Track.                                                                  *)
(***************************************************************************)
ZeroTrack ==
    [Album |-> <<>>, Artist |-> <<>>, Date |-> <<>>, Filename |-> <<>>,
     Genre |-> <<>>, Path |-> <<>>, Time |-> <<>>, Title |-> <<>>]

TrackSet(t, key, value) ==
    CASE key = kAlbum -> [t EXCEPT !.Album = value]
      [] key = kArtist -> [t EXCEPT !.Artist = value]
      [] key = kDate -> [t EXCEPT !.Date = value]
      [] key = kGenre -> [t EXCEPT !.Genre = value]
      [] key = kTime -> [t EXCEPT !.Time = value]
      [] key = kTitle -> [t EXCEPT !.Title = value]
      [] OTHER -> t

(***************************************************************************)
(* filepath.Join: the elements from the first non-empty one on, joined     *)
(* with the separator, then Clean.                                         *)
(***************************************************************************)
RECURSIVE SplitAll(_, _)
SplitAll(s, c) ==
    LET i == Index(s, c) IN
    IF i = 0 THEN <<s>> ELSE <<SubSeq(s, 1, i - 1)>> \o SplitAll(From(s, i + 1), c)

RECURSIVE JoinWith(_, _)
JoinWith(elems, c) ==
    IF elems = <<>> THEN <<>>
    ELSE IF Len(elems) = 1 THEN elems[1]
    ELSE elems[1] \o <<c>> \o JoinWith(Tail(elems), c)

\* The elements Clean keeps: empty and "." elements go, ".." removes the element
\* before it (or stays, in a path that is not rooted and has nothing to remove).
RECURSIVE CleanElems(_, _, _)
CleanElems(elems, kept, rooted) ==
    IF elems = <<>> THEN kept
    ELSE LET e == Head(elems) IN
         IF e = <<>> \/ e = <<".">> THEN CleanElems(Tail(elems), kept, rooted)
         ELSE IF e = <<".", ".">>
         THEN IF kept # <<>> /\ kept[Len(kept)] # <<".", ".">>
              THEN CleanElems(Tail(elems), SubSeq(kept, 1, Len(kept) - 1), rooted)
              ELSE IF rooted THEN CleanElems(Tail(elems), kept, rooted)
              ELSE CleanElems(Tail(elems), Append(kept, e), rooted)
         ELSE CleanElems(Tail(elems), Append(kept, e), rooted)

Clean(p) ==
    IF p = <<>> THEN <<".">>
    ELSE LET rooted == p[1] = "/"
             body == JoinWith(CleanElems(SplitAll(p, "/"), <<>>, rooted), "/")
         IN IF rooted THEN <<"/">> \o body
            ELSE IF body = <<>> THEN <<".">> ELSE body

RECURSIVE Join(_)
Join(elems) ==
    IF elems = <<>> THEN <<>>
    ELSE IF Head(elems) # <<>> THEN Clean(JoinWith(elems, "/"))
    ELSE Join(Tail(elems))

(***************************************************************************)
(* parse.                                                                  *)
(***************************************************************************)
\* new(Track): the address of a record not yet in the heap.
NewTrackReused(h, t) == t

NewTrack(h, t) == Len(h) + 1

\* tracks = append(tracks, track)
AppendDropped(ts, t) == ts

AppendTrack(ts, t) == Append(ts, t)

\* The path given to a track by its song_begin line.
SongPath(stack, filename) == Join(Append(stack, filename))

\* case "Artist", "Album", "Date", "Genre", "Time", "Title"
MetadataKeys == {kAlbum, kArtist, kDate, kGenre, kTime, kTitle}

CaseOfDefaultDirectory(key) ==
    CASE key = kEnd -> "end"
      [] key \in MetadataKeys -> "metadata"
      [] key = kSongBegin -> "song_begin"
      [] key = kSongEnd -> "song_end"
      [] OTHER -> "directory"

\* switch key: the case a key selects, "none" for a key of no case.
CaseOf(key) ==
    CASE key = kDirectory -> "directory"
      [] key = kEnd -> "end"
      [] key \in MetadataKeys -> "metadata"
      [] key = kSongBegin -> "song_begin"
      [] key = kSongEnd -> "song_end"
      [] OTHER -> "none"

\* One turn of the loop of parse: scan.Scan() delivered line.
ScanLine(line) ==
    LET kv == keyValue(line)
        key == kv[1]
        value == kv[2]
    IN
    /\ pc = "parse"
    /\ scanned' = Append(scanned, line)
    /\ IF CaseOf(key) = "end" /\ DiscardTopFails(dirstack)
       THEN /\ fail(msgCorrupted)
            /\ UNCHANGED <<dirstack, track, tracks, heap>>
       ELSE /\ UNCHANGED <<pc, exitCode, stderr>>
            /\ CASE CaseOf(key) = "directory" ->
                      /\ dirstack' = Push(dirstack, value)
                      /\ UNCHANGED <<track, tracks, heap>>
                 [] CaseOf(key) = "end" ->
                      /\ dirstack' = DiscardTop(dirstack)
                      /\ UNCHANGED <<track, tracks, heap>>
                 [] CaseOf(key) = "metadata" ->
                      /\ heap' = [heap EXCEPT ![track] = TrackSet(@, key, value)]
                      /\ UNCHANGED <<dirstack, track, tracks>>
                 [] CaseOf(key) = "song_begin" ->
                      /\ heap' = [heap EXCEPT ![track] =
                                    [@ EXCEPT !.Filename = value,
                                              !.Path = SongPath(dirstack, value)]]
                      /\ UNCHANGED <<dirstack, track, tracks>>
                 [] CaseOf(key) = "song_end" ->
                      /\ tracks' = AppendTrack(tracks, track)
                      /\ track' = NewTrack(heap, track)
                      /\ heap' = IF NewTrack(heap, track) > Len(heap)
                                 THEN Append(heap, ZeroTrack) ELSE heap
                      /\ UNCHANGED dirstack
                 [] OTHER -> UNCHANGED <<dirstack, track, tracks, heap>>

ScanEofOpenDirectoryFails ==
    /\ pc = "parse"
    /\ IF dirstack # <<>>
       THEN fail(msgCorrupted)
       ELSE /\ pc' = "parsed"
            /\ UNCHANGED <<exitCode, stderr>>
    /\ UNCHANGED <<scanned, dirstack, track, tracks, heap>>

\* scan.Scan() returned false at the end of the stream: scan.Err() is nil.
ScanEof ==
    /\ pc = "parse"
    /\ pc' = "parsed"
    /\ UNCHANGED <<exitCode, stderr, scanned, dirstack, track, tracks, heap>>

\* scan.Scan() returned false on a read error: fail(scan.Err()).
ScanError ==
    /\ pc = "parse"
    /\ fail(msgRead)
    /\ UNCHANGED <<scanned, dirstack, track, tracks, heap>>

\* The lines of the database stream.
DbLines ==
    { kDirectory \o <<":", " ", "a">>,
      kDirectory \o <<":", " ", "b">>,
      kEnd,
      kSongBegin \o <<":", " ">> \o cMp3,
      kSongEnd,
      kArtist \o <<":", " ", "x">>,
      kMtime \o <<":", " ", "1">> }

InitCommon ==
    /\ exitCode = -1
    /\ stderr = <<>>
    /\ args = <<>>
    /\ scanned = <<>>
    /\ dirstack = <<>>
    /\ track = 1
    /\ tracks = <<>>
    /\ heap = <<ZeroTrack>>
    /\ cols = 0
    /\ shuffled = <<>>
    /\ emitted = <<>>
    /\ uiStarted = FALSE
    /\ uiStatus = Running
    /\ waitErr = NoError
    /\ fields = <<>>
    /\ path = <<>>
    /\ pos = 0
    /\ found = FALSE
    /\ issued = <<>>
    /\ queue = <<>>
    /\ playing = 0
    /\ runs = 0

\* parse alone: the state at the top of its loop, before the first line.
InitParse ==
    /\ pc = "parse"
    /\ InitCommon

NextParse ==
    \/ /\ Len(scanned) < MaxLines
       /\ \E line \in DbLines : ScanLine(line)
       /\ UNCHANGED <<args, listVars, selectVars>>
    \/ /\ ScanEof
       /\ UNCHANGED <<args, listVars, selectVars>>
    \/ /\ ScanError
       /\ UNCHANGED <<args, listVars, selectVars>>

SpecParse == InitParse /\ [][NextParse]_vars

(***************************************************************************)
(* formatDurationString.  time.ParseDuration(str + "s") is modelled for    *)
(* the texts the model draws: a run of decimal digits is that many         *)
(* seconds; the empty text and a text with a letter are parse errors.      *)
(***************************************************************************)
Digits == <<"0", "1", "2", "3", "4", "5", "6", "7", "8", "9">>

IsDigit(c) == \E d \in 1..10 : Digits[d] = c

DigitValue(c) == (CHOOSE d \in 1..10 : Digits[d] = c) - 1

RECURSIVE Atoi(_)
Atoi(s) == IF s = <<>> THEN 0 ELSE 10 * Atoi(SubSeq(s, 1, Len(s) - 1)) + DigitValue(s[Len(s)])

\* %d
RECURSIVE Itoa(_)
Itoa(n) == IF n < 10 THEN <<Digits[n + 1]>> ELSE Itoa(n \div 10) \o <<Digits[(n % 10) + 1]>>

\* The two-digit fields 04 and 05 of time.Format.
Pad2(n) == <<Digits[(n \div 10) + 1], Digits[(n % 10) + 1]>>

\* A decimal numeral without its leading zeros.
RECURSIVE StripZeros(_)
StripZeros(s) == IF Len(s) > 1 /\ Head(s) = "0" THEN StripZeros(Tail(s)) ELSE s

\* Whether the numeral a denotes a larger number than the numeral b.
NumeralGreater(a, b) ==
    LET x == StripZeros(a)
        y == StripZeros(b)
    IN \/ Len(x) > Len(y)
       \/ /\ Len(x) = Len(y)
          /\ \E i \in 1..Len(x) :
                /\ DigitValue(x[i]) > DigitValue(y[i])
                /\ \A j \in 1..(i - 1) : x[j] = y[j]

\* Long division of the numeral s by d: <<quotient numeral, remainder>>.  The
\* numeral may denote a number wider than the integers of TLC.
RECURSIVE DivModFrom(_, _, _, _, _)
DivModFrom(s, d, i, rem, quot) ==
    IF i > Len(s) THEN <<StripZeros(quot), rem>>
    ELSE LET cur == rem * 10 + DigitValue(s[i])
         IN DivModFrom(s, d, i + 1, cur % d, quot \o <<Digits[(cur \div d) + 1]>>)

DivMod(s, d) == DivModFrom(s, d, 1, 0, <<>>)

\* time.Duration is a signed 64-bit count of nanoseconds: the largest whole
\* number of seconds time.ParseDuration takes is (1 << 63) / 10^9.
MaxDurationSeconds == <<"9", "2", "2", "3", "3", "7", "2", "0", "3", "6">>

\* time.ParseDuration(str + "s") returns an error.  The texts drawn are
\* numerals, the empty text and texts that hold a letter.
ParseDurationFails(str) ==
    \/ str = <<>>
    \/ \E i \in 1..Len(str) : ~IsDigit(str[i])
    \/ NumeralGreater(str, MaxDurationSeconds)

\* int(duration.Hours()), t.Minute() and t.Second() of a duration of str seconds.
DurationHours(str) == DivMod(DivMod(str, 60)[1], 60)[1]
DurationMinute(str) == DivMod(DivMod(str, 60)[1], 60)[2]
DurationSecond(str) == DivMod(str, 60)[2]

UnderAnHourInclusive(str) ==
    DurationHours(str) = <<"0">> \/ StripZeros(str) = <<"3", "6", "0", "0">>

\* duration < time.Hour
UnderAnHour(str) == DurationHours(str) = <<"0">>

formatDurationString(str) ==
    IF ParseDurationFails(str) THEN <<"(", "-", ":", "-", "-", ")">>
    ELSE IF UnderAnHour(str)
         THEN <<"(">> \o Itoa(DurationMinute(str)) \o <<":">>
              \o Pad2(DurationSecond(str)) \o <<")">>
         ELSE <<"(">> \o DurationHours(str) \o <<":">>
              \o Pad2(DurationMinute(str)) \o <<":">> \o Pad2(DurationSecond(str)) \o <<")">>

(***************************************************************************)
(* withoutExt: filepath.Base, filepath.Ext, strings.TrimSuffix.            *)
(***************************************************************************)
\* The last place of c in s, 0 when there is none.
LastIndex(s, c) ==
    IF \E i \in 1..Len(s) : s[i] = c
    THEN CHOOSE i \in 1..Len(s) : s[i] = c /\ \A j \in (i + 1)..Len(s) : s[j] # c
    ELSE 0

RECURSIVE StripTrailingSlashes(_)
StripTrailingSlashes(p) ==
    IF p # <<>> /\ p[Len(p)] = "/" THEN StripTrailingSlashes(SubSeq(p, 1, Len(p) - 1)) ELSE p

Base(p) ==
    IF p = <<>> THEN <<".">>
    ELSE LET q == StripTrailingSlashes(p)
             r == From(q, LastIndex(q, "/") + 1)
         IN IF r = <<>> THEN <<"/">> ELSE r

\* Ext of a name that holds no separator.
Ext(name) == IF LastIndex(name, ".") = 0 THEN <<>> ELSE From(name, LastIndex(name, "."))

TrimSuffix(s, suffix) ==
    IF HasSuffix(s, suffix) THEN SubSeq(s, 1, Len(s) - Len(suffix)) ELSE s

withoutExt(p) == TrimSuffix(Base(p), Ext(Base(p)))

(***************************************************************************)
(* go-runewidth: RuneWidth, StringWidth, Truncate, FillRight.              *)
(***************************************************************************)
RuneWidth(c) == IF c = "CJK" THEN 2 ELSE 1

RECURSIVE StringWidth(_)
StringWidth(s) == IF s = <<>> THEN 0 ELSE RuneWidth(Head(s)) + StringWidth(Tail(s))

RECURSIVE Spaces(_)
Spaces(n) == IF n <= 0 THEN <<>> ELSE <<" ">> \o Spaces(n - 1)

\* The loop of Truncate: how many codepoints of s, from place i on with width
\* columns already taken, fit in w columns.
RECURSIVE TruncateKeep(_, _, _, _)
TruncateKeep(s, i, width, w) ==
    IF i > Len(s) THEN Len(s)
    ELSE IF width + RuneWidth(s[i]) > w THEN i - 1
    ELSE TruncateKeep(s, i + 1, width + RuneWidth(s[i]), w)

TruncateWhenRoomOnly(s, w, tail) ==
    IF StringWidth(s) <= w \/ w < StringWidth(tail) THEN s
    ELSE SubSeq(s, 1, TruncateKeep(s, 1, 0, w - StringWidth(tail))) \o tail

Truncate(s, w, tail) ==
    IF StringWidth(s) <= w THEN s
    ELSE SubSeq(s, 1, TruncateKeep(s, 1, 0, w - StringWidth(tail))) \o tail

FillRightNoPadding(s, w) == s

FillRight(s, w) ==
    LET count == w - StringWidth(s)
    IN IF count > 0 THEN s \o Spaces(count) ELSE s

ellipsis == <<".", ".", ".", " ">>

alignLeftRight(maxlen, left, right) ==
    FillRight(Truncate(left, maxlen, ellipsis), maxlen) \o right

(***************************************************************************)
(* trackFormatter.                                                         *)
(***************************************************************************)
\* strings.Replace(s, old, new, -1) for one-codepoint old and new.
ReplaceNothing(s, old, new) == s

ReplaceFirst(s, old, new) ==
    [i \in 1..Len(s) |->
        IF s[i] = old /\ (\A j \in 1..(i - 1) : s[j] # old) THEN new ELSE s[i]]

Replace(s, old, new) == [i \in 1..Len(s) |-> IF s[i] = old THEN new ELSE s[i]]

\* width := termWidth() - 5 - 1
FormatterWidth(termWidth) == termWidth - 5 - 1

DescriptionArtistAlways(t) ==
    LET info1 == IF t.Title = <<>> THEN withoutExt(t.Filename) ELSE t.Title
        info2 == t.Artist \o <<" ", "-", " ">> \o info1
    IN IF t.Album # <<>> THEN info2 \o <<" ", "{">> \o t.Album \o <<"}">> ELSE info2

\* info before the delimiter is replaced in it.
Description(t) ==
    LET info1 == IF t.Title = <<>> THEN withoutExt(t.Filename) ELSE t.Title
        info2 == IF t.Artist # <<>> THEN t.Artist \o <<" ", "-", " ">> \o info1 ELSE info1
    IN IF t.Album # <<>> THEN info2 \o <<" ", "{">> \o t.Album \o <<"}">> ELSE info2

\* The closure returned by trackFormatter, for its captured width.
format(width, t) ==
    LET info == Replace(Description(t), delimiter, " ")
        duration == formatDurationString(t.Time)
    IN alignLeftRight(width - Len(duration), info, <<delimiter>> \o duration)
       \o <<delimiter>> \o t.Path

(***************************************************************************)
(* cmdSelect.                                                              *)
(***************************************************************************)
\* strings.SplitN(s, sep, n) for a one-codepoint sep and n > 0.
RECURSIVE SplitN(_, _, _)
SplitN(s, sep, n) ==
    LET i == Index(s, sep) IN
    IF n <= 1 \/ i = 0 THEN <<s>>
    ELSE <<SubSeq(s, 1, i - 1)>> \o SplitN(From(s, i + 1), sep, n - 1)

ExpectedFields == 3

cmdPlayArg == <<"_", "p", "l", "a", "y">>
cmdQueueArg == <<"_", "q", "u", "e", "u", "e">>

\* cmdList: one turn of the loop that writes format(t) to the stdin of fzf.
WriteLine ==
    /\ pc = "write"
    /\ Len(emitted) < Len(shuffled)
    /\ emitted' = Append(emitted,
                         format(FormatterWidth(cols), heap[shuffled[Len(emitted) + 1]]))
    /\ UNCHANGED <<pc, exitCode, stderr, args, parserVars, cols, shuffled, uiStarted,
                   uiStatus, waitErr, selectVars>>

\* A process of the program starts with the arguments a: what belongs to the
\* process is as at its start, the queue of mpd is what it was.  fzf starts one
\* with mpd-fzf _play {} or mpd-fzf _queue {} on a line it was given.
StartProcess(a) ==
    /\ args' = a
    /\ pc' = "main"
    /\ exitCode' = -1
    /\ stderr' = <<>>
    /\ fields' = <<>>
    /\ path' = <<>>
    /\ pos' = 0
    /\ found' = FALSE
    /\ issued' = <<>>
    /\ runs' = runs + 1
    /\ UNCHANGED <<parserVars, listVars, queue, playing>>

\* main, up to the call of cmdSelect or cmdList.
Main ==
    /\ pc = "main"
    /\ IF Len(args) > 0
       THEN IF Len(args) = 2 /\ args[1] \in {cmdPlayArg, cmdQueueArg}
            THEN /\ pc' = "select"
                 /\ UNCHANGED <<exitCode, stderr>>
            ELSE fail(msgUsage)
       ELSE /\ pc' = "list"
            /\ UNCHANGED <<exitCode, stderr>>
    /\ UNCHANGED <<args, parserVars, listVars, selectVars>>

failNotifyReturns(message) ==
    /\ pc' = "find"
    /\ UNCHANGED <<exitCode, stderr>>

\* failNotify(message): the notification, then fail.
failNotify(message) == fail(message)

\* cmdSelect up to the call of mpcSelect.
CmdSelect ==
    /\ pc = "select"
    /\ LET split == SplitN(args[2], delimiter, ExpectedFields) IN
       /\ fields' = split
       /\ IF Len(split) # ExpectedFields
          THEN /\ failNotify(msgSplit)
               /\ UNCHANGED path
          ELSE /\ path' = split[3]
               /\ pc' = "find"
               /\ UNCHANGED <<exitCode, stderr>>
    /\ UNCHANGED <<args, parserVars, listVars, pos, found, issued, queue, playing, runs>>

(***************************************************************************)
(* The formatter and the split of cmdSelect on their own: one track and a  *)
(* terminal width, the line written for it, the line split again.          *)
(***************************************************************************)
FmtTitles ==
    { <<>>, <<"t">>, <<"t", "ENSP", "u">>, <<"ENSP", "ENSP", "v">>,
      <<"CJK", "CJK", "CJK", "CJK">>,
      <<"l", "o", "n", "g", "n", "a", "m", "e">> }
FmtArtists == { <<>>, <<"x">> }
FmtAlbums == { <<>>, <<"y">> }
FmtFilenames == { cMp3, <<"d">>, <<"e", ".", "f", ".", "g">> }
FmtTimes == { <<>>, <<"4", "5">>, <<"3", "6", "6", "1">>, <<"x">> }
FmtPaths == { <<>>, <<"a", "/">> \o cMp3, <<"a", "ENSP", "b", "/", "d", "ENSP">> }

FmtTracks ==
    { [ZeroTrack EXCEPT !.Title = ti, !.Artist = ar, !.Album = al, !.Filename = fi,
                        !.Time = tm, !.Path = pa] :
        ti \in FmtTitles, ar \in FmtArtists, al \in FmtAlbums, fi \in FmtFilenames,
        tm \in FmtTimes, pa \in FmtPaths }

InitFormat ==
    /\ pc = "write"
    /\ exitCode = -1
    /\ stderr = <<>>
    /\ args = <<>>
    /\ scanned = <<>>
    /\ dirstack = <<>>
    /\ track = 1
    /\ tracks = <<1>>
    /\ heap \in {<<t>> : t \in FmtTracks}
    /\ cols \in 0..MaxCols
    /\ shuffled = <<1>>
    /\ emitted = <<>>
    /\ uiStarted = TRUE
    /\ uiStatus = Running
    /\ waitErr = NoError
    /\ fields = <<>>
    /\ path = <<>>
    /\ pos = 0
    /\ found = FALSE
    /\ issued = <<>>
    /\ queue = <<>>
    /\ playing = 0
    /\ runs = 0

NextFormat ==
    \/ WriteLine
    \/ /\ pc = "write"
       /\ emitted # <<>>
       /\ \E cmd \in {cmdPlayArg, cmdQueueArg} : StartProcess(<<cmd, emitted[1]>>)
    \/ Main
    \/ CmdSelect

SpecFormat == InitFormat /\ [][NextFormat]_vars

(***************************************************************************)
(* mpc and the play queue of mpd.  A command is run with mpcRun; when mpc  *)
(* ends with an error (mpd not reachable, a file mpd does not know, a      *)
(* position that is not in the queue) mpcRun calls failNotify.             *)
(***************************************************************************)
\* The output of mpc playlist -f %file%: one line for each entry of the queue.
RECURSIVE PlaylistOutput(_)
PlaylistOutput(q) ==
    IF q = <<>> THEN <<>> ELSE Head(q) \o <<"\n">> \o PlaylistOutput(Tail(q))

\* mpcFindOnPlaylist after the listing: <<pos, found>>.
mpcFindOnPlaylist(p, playlist) ==
    LET lines == SplitAll(playlist, "\n")
        hits == {i \in 1..Len(lines) : lines[i] = p}
    IN IF hits # {}
       THEN <<CHOOSE i \in hits : \A j \in hits : i <= j, TRUE>>
       ELSE <<Len(lines), FALSE>>

PlayRequested == args[1] = cmdPlayArg

Issue(cmd, arg, ok) == Append(issued, [cmd |-> cmd, arg |-> arg, ok |-> ok])

\* mpcSelect: pos, found := mpcFindOnPlaylist(path)
MpcFind(ok) ==
    /\ pc = "find"
    /\ issued' = Issue("playlist", <<>>, ok)
    /\ IF ~ok
       THEN /\ failNotify(msgMpc)
            /\ UNCHANGED <<pos, found>>
       ELSE LET r == mpcFindOnPlaylist(path, PlaylistOutput(queue)) IN
            /\ pos' = r[1]
            /\ found' = r[2]
            /\ pc' = IF ~r[2] THEN "add" ELSE IF PlayRequested THEN "play" ELSE "return"
            /\ UNCHANGED <<exitCode, stderr>>
    /\ UNCHANGED <<args, parserVars, listVars, fields, path, queue, playing, runs>>

\* mpcSelect: mpcRun("add", path); mpd appends the file to the queue.
MpcAdd(ok) ==
    /\ pc = "add"
    /\ issued' = Issue("add", path, ok)
    /\ IF ~ok
       THEN /\ failNotify(msgMpc)
            /\ UNCHANGED queue
       ELSE /\ queue' = Append(queue, path)
            /\ pc' = IF PlayRequested THEN "play" ELSE "return"
            /\ UNCHANGED <<exitCode, stderr>>
    /\ UNCHANGED <<args, parserVars, listVars, fields, path, pos, found, playing, runs>>

\* mpcSelect: mpcRun("play", strconv.Itoa(pos)); mpd plays the entry at pos, and
\* mpc ends with an error when the queue has no such position.
MpcPlay(reachable) ==
    LET ok == reachable /\ pos \in 1..Len(queue) IN
    /\ pc = "play"
    /\ issued' = Issue("play", pos, ok)
    /\ IF ~ok
       THEN /\ failNotify(msgMpc)
            /\ UNCHANGED playing
       ELSE /\ playing' = pos
            /\ pc' = "return"
            /\ UNCHANGED <<exitCode, stderr>>
    /\ UNCHANGED <<args, parserVars, listVars, fields, path, pos, found, queue, runs>>

\* main after cmdSelect has returned: the switch ends, the if ends, and the
\* statement that follows is fail(errors.New("Usage: mpd-fzf (no arguments)")).
MainAfterSelect ==
    /\ pc = "return"
    /\ fail(msgUsage)
    /\ UNCHANGED <<args, parserVars, listVars, selectVars>>

\* The selection entrypoint on its own: processes started one after the other
\* on a queue nobody else writes.
SelPaths == { <<>>, <<"p">>, <<"q">> }
QueuePaths == { <<"p">>, <<"q">> }
SelLines ==
    { <<"i", " ", "ENSP", "(", "0", ":", "4", "5", ")", "ENSP">> \o p : p \in SelPaths }
    \cup { <<"i", " ", "ENSP", "p">> }
SelArgs ==
    { <<cmd, line>> : cmd \in {cmdPlayArg, cmdQueueArg, <<"_", "x">>}, line \in SelLines }
    \cup { <<<<"-", "h">>>> }

InitSelect ==
    /\ pc = "start"
    /\ exitCode = -1
    /\ stderr = <<>>
    /\ args = <<>>
    /\ scanned = <<>>
    /\ dirstack = <<>>
    /\ track = 1
    /\ tracks = <<>>
    /\ heap = <<ZeroTrack>>
    /\ cols = 0
    /\ shuffled = <<>>
    /\ emitted = <<>>
    /\ uiStarted = TRUE
    /\ uiStatus = Running
    /\ waitErr = NoError
    /\ fields = <<>>
    /\ path = <<>>
    /\ pos = 0
    /\ found = FALSE
    /\ issued = <<>>
    /\ queue \in UNION {[1..n -> QueuePaths] : n \in 0..MaxQueue}
    /\ playing \in 0..Len(queue)
    /\ runs = 0

NextSelect ==
    \/ /\ pc \in {"start", "exit"}
       /\ runs < MaxRuns
       /\ \E a \in SelArgs : StartProcess(a)
    \/ Main
    \/ CmdSelect
    \/ \E ok \in BOOLEAN : MpcFind(ok)
    \/ \E ok \in BOOLEAN : MpcAdd(ok)
    \/ \E reachable \in BOOLEAN : MpcPlay(reachable)
    \/ MainAfterSelect

SpecSelect == InitSelect /\ [][NextSelect]_vars

(***************************************************************************)
(* groupByArtist.  order is the order in which the range over the map      *)
(* artists delivers its keys: any order of them.                           *)
(***************************************************************************)
ArtistKeys(ts, h) == {h[ts[i]].Artist : i \in 1..Len(ts)}

KeyOrders(keys) ==
    {o \in [1..Cardinality(keys) -> keys] :
        \A i, j \in 1..Cardinality(keys) : o[i] = o[j] => i = j}

\* artists[a] after the first loop: the tracks of artist a, in the order of ts.
RECURSIVE ArtistGroupPrepended(_, _, _)
ArtistGroupPrepended(ts, h, a) ==
    IF ts = <<>> THEN <<>>
    ELSE IF h[Head(ts)].Artist = a THEN ArtistGroupPrepended(Tail(ts), h, a) \o <<Head(ts)>>
    ELSE ArtistGroupPrepended(Tail(ts), h, a)

RECURSIVE ArtistGroup(_, _, _)
ArtistGroup(ts, h, a) ==
    IF ts = <<>> THEN <<>>
    ELSE IF h[Head(ts)].Artist = a THEN <<Head(ts)>> \o ArtistGroup(Tail(ts), h, a)
    ELSE ArtistGroup(Tail(ts), h, a)

RECURSIVE FillShuffledFirstOfGroup(_, _, _)
FillShuffledFirstOfGroup(ts, h, order) ==
    IF order = <<>> THEN <<>>
    ELSE <<Head(ArtistGroup(ts, h, Head(order)))>>
         \o FillShuffledFirstOfGroup(ts, h, Tail(order))

\* The second loop: the groups written one after the other into shuffled.
RECURSIVE FillShuffled(_, _, _)
FillShuffled(ts, h, order) ==
    IF order = <<>> THEN <<>>
    ELSE ArtistGroup(ts, h, Head(order)) \o FillShuffled(ts, h, Tail(order))

groupByArtistUngrouped(ts, h, order) == ts

groupByArtist(ts, h, order) == FillShuffled(ts, h, order)

\* cmdList: tracks := groupByArtist(parse(scan))
GroupTracks ==
    /\ pc = "parsed"
    /\ \E order \in KeyOrders(ArtistKeys(tracks, heap)) :
          shuffled' = groupByArtist(tracks, heap, order)
    /\ pc' = "grouped"
    /\ UNCHANGED <<exitCode, stderr, args, parserVars, cols, emitted, uiStarted, uiStatus,
                   waitErr, selectVars>>

\* groupByArtist on its own: a list of distinct records, any artists.
GroupArtists == { <<>>, <<"x">>, <<"y">> }

InitGroup ==
    /\ pc = "parsed"
    /\ exitCode = -1
    /\ stderr = <<>>
    /\ args = <<>>
    /\ scanned = <<>>
    /\ dirstack = <<>>
    /\ \E n \in 0..MaxGroup :
          /\ tracks = [i \in 1..n |-> i]
          /\ track = n + 1
          /\ \E artist \in [1..n -> GroupArtists] :
                heap = [i \in 1..(n + 1) |->
                          IF i <= n THEN [ZeroTrack EXCEPT !.Artist = artist[i]]
                          ELSE ZeroTrack]
    /\ cols = 0
    /\ shuffled = <<>>
    /\ emitted = <<>>
    /\ uiStarted = FALSE
    /\ uiStatus = Running
    /\ waitErr = NoError
    /\ fields = <<>>
    /\ path = <<>>
    /\ pos = 0
    /\ found = FALSE
    /\ issued = <<>>
    /\ queue = <<>>
    /\ playing = 0
    /\ runs = 0

NextGroup == GroupTracks

SpecGroup == InitGroup /\ [][NextGroup]_vars

(***************************************************************************)
(* cmdList.                                                                *)
(***************************************************************************)
\* findDbFile, trackFormatter (stty size), os.Open, gzip.NewReader: each ends the
\* run through fail when it fails.
ListSetup(ok, termWidth) ==
    /\ pc = "list"
    /\ IF ~ok
       THEN /\ fail(msgEnv)
            /\ UNCHANGED cols
       ELSE /\ cols' = termWidth
            /\ pc' = "parse"
            /\ UNCHANGED <<exitCode, stderr>>
    /\ UNCHANGED <<args, parserVars, shuffled, emitted, uiStarted, uiStatus, waitErr,
                   selectVars>>

\* gz.Close, file.Close, fzf.StdinPipe, fzf.Start.
StartUi(ok) ==
    /\ pc = "grouped"
    /\ IF ~ok
       THEN /\ fail(msgEnv)
            /\ UNCHANGED uiStarted
       ELSE /\ uiStarted' = TRUE
            /\ pc' = "write"
            /\ UNCHANGED <<exitCode, stderr>>
    /\ UNCHANGED <<args, parserVars, cols, shuffled, emitted, uiStatus, waitErr, selectVars>>

\* in.Close() after the last line.
CloseInput(ok) ==
    /\ pc = "write"
    /\ Len(emitted) = Len(shuffled)
    /\ IF ~ok
       THEN fail(msgEnv)
       ELSE /\ pc' = "wait"
            /\ UNCHANGED <<exitCode, stderr>>
    /\ UNCHANGED <<args, parserVars, listVars, selectVars>>

\* The Error() of the *exec.ExitError of a process that exited with status n.
ExitStatusText(n) == <<"e", "x", "i", "t", " ", "s", "t", "a", "t", "u", "s", " ">> \o Itoa(n)

\* The Error() of the *exec.ExitError of a process ended by SIGKILL.
SignalText == <<"s", "i", "g", "n", "a", "l", ":", " ", "k", "i", "l", "l", "e", "d">>

\* What fzf.Wait() returns for an exit status.
WaitResult(status) ==
    IF status = Exited(0) THEN NoError
    ELSE IF status.kind = "signal" THEN Error(SignalText)
    ELSE Error(ExitStatusText(status.code))

ignoreExitInterruptSuffix30(err) ==
    IF ~err.nil /\ HasSuffix(err.text, <<"3", "0">>) THEN NoError ELSE err

ignoreExitInterrupt(err) ==
    IF ~err.nil /\ HasSuffix(err.text, <<"1", "3", "0">>) THEN NoError ELSE err

\* fail(ignoreExitInterrupt(fzf.Wait())), then cmdList and main return.
WaitUi(status) ==
    /\ pc = "wait"
    /\ uiStatus' = status
    /\ waitErr' = WaitResult(status)
    /\ LET err == ignoreExitInterrupt(WaitResult(status)) IN
       IF ~err.nil
       THEN fail(err.text)
       ELSE /\ pc' = "exit"
            /\ exitCode' = 0
            /\ UNCHANGED stderr
    /\ UNCHANGED <<args, parserVars, cols, shuffled, emitted, uiStarted, selectVars>>

UiStatuses == {Exited(n) : n \in {0, 1, 2, 30, 130, 131, 230}} \cup {Signaled}

\* The lines of the database stream in a run of the whole pipeline.
ListLines ==
    { kDirectory \o <<":", " ", "a">>,
      kEnd,
      kSongBegin \o <<":", " ">> \o cMp3,
      kSongEnd,
      kArtist \o <<":", " ", "x">> }

InitList ==
    /\ pc = "main"
    /\ InitCommon

NextList ==
    \/ Main
    \/ \E ok \in BOOLEAN, w \in {MaxCols - 8, MaxCols} : ListSetup(ok, w)
    \/ /\ Len(scanned) < MaxListLines
       /\ \E line \in ListLines : ScanLine(line)
       /\ UNCHANGED <<args, listVars, selectVars>>
    \/ /\ ScanEof
       /\ UNCHANGED <<args, listVars, selectVars>>
    \/ /\ ScanError
       /\ UNCHANGED <<args, listVars, selectVars>>
    \/ GroupTracks
    \/ \E ok \in BOOLEAN : StartUi(ok)
    \/ WriteLine
    \/ \E ok \in BOOLEAN : CloseInput(ok)
    \/ \E status \in UiStatuses : WaitUi(status)

SpecList == InitList /\ [][NextList]_vars


(***************************************************************************)
(* What the stream read so far says, line by line, for the parser claims.  *)
(***************************************************************************)
KeyOf(line) == keyValue(line)[1]
ValueOf(line) == keyValue(line)[2]

\* The number of lines among the first n whose key is key.
CountKey(lines, n, key) == Cardinality({i \in 1..n : KeyOf(lines[i]) = key})

SongEnds(lines) == CountKey(lines, Len(lines), kSongEnd)

\* directory lines minus end lines among the first n lines.
Balance(lines, n) == CountKey(lines, n, kDirectory) - CountKey(lines, n, kEnd)

\* The directories open after lines, outermost first.
RECURSIVE OpenDirs(_)
OpenDirs(lines) ==
    IF lines = <<>> THEN <<>>
    ELSE LET before == OpenDirs(SubSeq(lines, 1, Len(lines) - 1))
             last == lines[Len(lines)]
         IN IF KeyOf(last) = kDirectory THEN Append(before, ValueOf(last))
            ELSE IF KeyOf(last) = kEnd THEN SubSeq(before, 1, Len(before) - 1)
            ELSE before

\* The non-empty names, in order, with one separator between neighbours.
RECURSIVE PlainJoin(_)
PlainJoin(names) ==
    IF names = <<>> THEN <<>>
    ELSE IF Head(names) = <<>> THEN PlainJoin(Tail(names))
    ELSE LET rest == PlainJoin(Tail(names))
         IN IF rest = <<>> THEN Head(names) ELSE Head(names) \o <<"/">> \o rest

\* The place in lines of the k-th song_end line, 0 for k = 0.
SongEndAt(lines, k) ==
    IF k = 0 THEN 0
    ELSE CHOOSE i \in 1..Len(lines) :
            KeyOf(lines[i]) = kSongEnd /\ CountKey(lines, i, kSongEnd) = k

\* The path the k-th track of the output must have: the one fixed by the last
\* song_begin line of its block, from the directories open at that line.
PathAtSongBegin(lines, k) ==
    LET begins == {i \in (SongEndAt(lines, k - 1) + 1)..(SongEndAt(lines, k) - 1) :
                      KeyOf(lines[i]) = kSongBegin}
    IN IF begins = {} THEN <<>>
       ELSE LET b == CHOOSE i \in begins : \A j \in begins : j <= i
            IN PlainJoin(Append(OpenDirs(SubSeq(lines, 1, b - 1)), ValueOf(lines[b])))

pathAC == <<"a", "/">> \o cMp3

(***************************************************************************)
(* C1: the Path of every track of the output list is the join, outermost   *)
(* first, of the directories open when its song_begin line was read and    *)
(* the filename, whatever lines have been read since.                      *)
(***************************************************************************)
C1_PathFixedAtSongBegin ==
    \A k \in 1..Len(tracks) :
        /\ k <= SongEnds(scanned)
        /\ heap[tracks[k]].Path = PathAtSongBegin(scanned, k)

\* song_begin under directory a, then song_end, end, and a sibling directory b open.
C1_Witness ==
    /\ pc = "parse"
    /\ Len(tracks) = 1
    /\ heap[tracks[1]].Path = pathAC
    /\ dirstack = <<<<"b">>>>

(***************************************************************************)
(* C2: while parse has not failed, the output list is as long as the       *)
(* number of song_end lines read, after every line and on return.          *)
(***************************************************************************)
C2_TracksEqualSongEnds ==
    pc \in {"parse", "parsed"} => Len(tracks) = SongEnds(scanned)

C2_Witness ==
    /\ pc = "parsed"
    /\ Len(tracks) = 2
    /\ Len(scanned) > 2

(***************************************************************************)
(* C3: the depth of the directory stack is the number of directory lines   *)
(* minus the number of end lines and never below 0; an end line read on an *)
(* empty stack ends the run at that line with the corrupted-database       *)
(* message and exit code 1.                                                *)
(***************************************************************************)
C3_EndOnEmptyStackAborts ==
    LET below == {n \in 1..Len(scanned) : Balance(scanned, n) < 0} IN
    /\ pc \in {"parse", "parsed"} =>
          /\ below = {}
          /\ Len(dirstack) = Balance(scanned, Len(scanned))
    /\ below # {} =>
          /\ below = {Len(scanned)}
          /\ pc = "exit"
          /\ exitCode = 1
          /\ stderr = msgCorrupted

\* directory, end, end: the second end finds the stack empty.
C3_Witness ==
    /\ pc = "exit"
    /\ stderr = msgCorrupted
    /\ Len(scanned) >= 3
    /\ Balance(scanned, Len(scanned) - 1) = 0
    /\ CountKey(scanned, Len(scanned), kDirectory) > 0

(***************************************************************************)
(* The one track, the width and the line of a run of the formatter alone.  *)
(***************************************************************************)
FmtTrack == heap[shuffled[1]]
FmtWidth == FormatterWidth(cols)
FmtDuration == formatDurationString(FmtTrack.Time)
FmtBudget == FmtWidth - Len(FmtDuration)
FmtInfo == Replace(Description(FmtTrack), delimiter, " ")

\* The length of the longest duration text of the tracks drawn.
LongestDuration ==
    CHOOSE n \in 0..20 :
        /\ \E tm \in FmtTimes : Len(formatDurationString(tm)) = n
        /\ \A tm \in FmtTimes : Len(formatDurationString(tm)) <= n

Holds(s, c) == \E i \in 1..Len(s) : s[i] = c

(***************************************************************************)
(* C4: the line written for a track, split by cmdSelect, has three fields  *)
(* and its last field is the Path of the track, codepoint for codepoint,   *)
(* also when the metadata or the Path hold the delimiter.                  *)
(***************************************************************************)
C4_RoundTrip ==
    /\ pc # "exit"
    /\ pc = "find" =>
          /\ args[2] = emitted[1]
          /\ Len(fields) = ExpectedFields
          /\ fields[ExpectedFields] = FmtTrack.Path
          /\ path = FmtTrack.Path

\* A title and a path that both hold the delimiter, after the split.
C4_Witness ==
    /\ pc = "find"
    /\ Holds(FmtTrack.Title, delimiter)
    /\ Holds(FmtTrack.Path, delimiter)
    /\ FmtBudget > 0

(***************************************************************************)
(* C9 as stated: for a width of at least the longest duration plus 1, the  *)
(* text before the delimiter has exactly width codepoints and ends with    *)
(* the duration.  Read with either delimiter of the line as "the"          *)
(* delimiter: the first one, or the one before the Path.                   *)
(***************************************************************************)
C9_VisibleHasWidthCodepoints ==
    (emitted # <<>> /\ FmtWidth >= LongestDuration + 1) =>
        LET line == emitted[1]
            beforeFirst == SubSeq(line, 1, Index(line, delimiter) - 1)
            beforePath == SubSeq(line, 1, Len(line) - Len(FmtTrack.Path) - 1)
        IN \E visible \in {beforeFirst, beforePath} :
              /\ Len(visible) = FmtWidth
              /\ HasSuffix(visible, FmtDuration)

(***************************************************************************)
(* C9 as amended: for a width of at least the longest duration plus 1, the *)
(* line is field, delimiter, duration, delimiter, Path.  The field is the  *)
(* description whole and padded with spaces when it fits in the budget     *)
(* width - len(duration), else a prefix of it, the marker "... " and       *)
(* padding.  Counted in display columns (2 for a double-width codepoint)   *)
(* the field is exactly the budget wide when the description fits or the   *)
(* budget is at least the 4 columns of the marker, and it is the marker    *)
(* alone, 4 columns, when the description does not fit a smaller budget.   *)
(***************************************************************************)
C9_FieldFillsBudget ==
    (emitted # <<>> /\ FmtWidth >= LongestDuration + 1) =>
        LET line == emitted[1]
            field == SubSeq(line, 1, Index(line, delimiter) - 1)
            fits == StringWidth(FmtInfo) <= FmtBudget
        IN /\ line = field \o <<delimiter>> \o FmtDuration \o <<delimiter>> \o FmtTrack.Path
           /\ StringWidth(field) = IF fits \/ FmtBudget >= Len(ellipsis) THEN FmtBudget
                                   ELSE Len(ellipsis)
           /\ IF fits
              THEN field = FmtInfo \o Spaces(FmtBudget - StringWidth(FmtInfo))
              ELSE \E n \in 0..(Len(FmtInfo) - 1) :
                      LET cut == SubSeq(FmtInfo, 1, n) \o ellipsis IN
                      /\ field = cut \o Spaces(FmtBudget - StringWidth(cut))
                      /\ StringWidth(cut) <= FmtBudget \/ n = 0

\* A description with double-width codepoints that is cut, then padded by one column.
C9_Witness ==
    /\ emitted # <<>>
    /\ FmtWidth >= LongestDuration + 1
    /\ Holds(FmtInfo, "CJK")
    /\ StringWidth(FmtInfo) > FmtBudget
    /\ FmtBudget > Len(ellipsis)
    /\ emitted[1][Index(emitted[1], delimiter) - 1] = " "
    /\ emitted[1][Index(emitted[1], delimiter) - 2] = " "

(***************************************************************************)
(* What a process of the selection entrypoint has done.                    *)
(***************************************************************************)
SelectionRun == Len(args) = 2 /\ args[1] \in {cmdPlayArg, cmdQueueArg}
SplitsAsExpected == Len(SplitN(args[2], delimiter, ExpectedFields)) = ExpectedFields
AllCommandsSucceeded == \A i \in 1..Len(issued) : issued[i].ok
InQueue(p, q) == \E i \in 1..Len(q) : q[i] = p
Occurrences(p, q) == Cardinality({i \in 1..Len(q) : q[i] = p})
AddIssued(log) == \E i \in 1..Len(log) : log[i].cmd = "add"

(***************************************************************************)
(* C5: a process started as _play <line> or _queue <line> whose line       *)
(* splits into the expected fields and whose mpc commands all succeed ends *)
(* with exit code 0; exit code 1 only when a step failed.                  *)
(***************************************************************************)
C5_SelectionSuccessExitsZero ==
    (pc = "exit" /\ SelectionRun /\ SplitsAsExpected /\ AllCommandsSucceeded) =>
        exitCode = 0

(***************************************************************************)
(* C6: once the list pipeline waits for fzf, the run ends with exit code 0 *)
(* when fzf exited with status 0 or 130 and with exit code 1 for every     *)
(* other status; the wait on a fzf that exited with 0 never ends the run   *)
(* in another way.                                                         *)
(***************************************************************************)
C6_WaitOutcome ==
    uiStatus # Running =>
        /\ pc = "exit"
        /\ exitCode = IF uiStatus \in {Exited(0), Exited(130)} THEN 0 ELSE 1
        /\ uiStatus \in {Exited(0), Exited(130)} => stderr = <<>>

\* fzf left with 130 after all the lines of two tracks were written.
C6_Witness ==
    /\ uiStatus = Exited(130)
    /\ exitCode = 0
    /\ Len(emitted) = 2

(***************************************************************************)
(* C7: a selection issues the add command if and only if no entry of the   *)
(* queue equals the path; no selection raises the number of entries equal  *)
(* to a path beyond one; selecting a queued path leaves the queue as it is.*)
(***************************************************************************)
C7_AddIffNotQueued ==
    [][ /\ (pc = "find" /\ pc' # "exit") => (pc' = "add" <=> ~InQueue(path, queue))
        /\ (pc = "add" /\ pc' # "add") => AddIssued(issued')
        /\ (pc \in {"play", "return"} /\ pc' = "exit" /\ found) => ~AddIssued(issued')
        /\ \A p \in SelPaths :
              Occurrences(p, queue') > Occurrences(p, queue) => Occurrences(p, queue') = 1
        /\ (pc \in {"find", "add", "play", "return"} /\ InQueue(path, queue)
              /\ AddIssued(issued') = AddIssued(issued)) => queue' = queue
      ]_vars

(***************************************************************************)
(* C8: the position given to the play command is a position of the queue, *)
(* as it stands after the add if there was one, whose entry equals the     *)
(* selected path: the first such entry when the path was queued before,    *)
(* the new last entry when it was just added.                              *)
(***************************************************************************)
C8_PlayPositionHoldsPath ==
    \A i \in 1..Len(issued) :
        issued[i].cmd = "play" =>
            /\ issued[i].arg \in 1..Len(queue)
            /\ queue[issued[i].arg] = path
            /\ \A j \in 1..(issued[i].arg - 1) : queue[j] # path
            /\ AddIssued(issued) => issued[i].arg = Len(queue)

(***************************************************************************)
(* C10: in the list returned by groupByArtist the tracks of one artist are *)
(* next to each other, whatever the order of the groups.                   *)
(***************************************************************************)
ArtistAt(ts, i) == heap[ts[i]].Artist

Contiguous(ts) ==
    \A i, j, k \in 1..Len(ts) :
        (i < j /\ j < k /\ ArtistAt(ts, i) = ArtistAt(ts, k)) => ArtistAt(ts, j) = ArtistAt(ts, i)

C10_ArtistsContiguous ==
    pc = "grouped" => (Len(shuffled) = Len(tracks) /\ Contiguous(shuffled))

\* An input where an artist is split by another, with the empty artist as a group.
C10_Witness ==
    /\ pc = "grouped"
    /\ ~Contiguous(tracks)
    /\ Cardinality(ArtistKeys(tracks, heap)) = 3
    /\ ArtistAt(shuffled, 1) # ArtistAt(tracks, 1)

(***************************************************************************)
(* keyValue on its own: a line is drawn and the function is applied to it  *)
(* once; scanned holds the line, fields the key and the value returned.    *)
(***************************************************************************)
LineCodepoints == {"k", ":", " "}

KeyValueLines == UNION {[1..n -> LineCodepoints] : n \in 0..MaxLineLen}

SplitLine ==
    /\ pc = "keyValue"
    /\ fields' = keyValue(scanned[1])
    /\ pc' = "split"
    /\ UNCHANGED <<exitCode, stderr, args, parserVars, listVars, path, pos, found,
                   issued, queue, playing, runs>>

InitKeyValue ==
    /\ pc = "keyValue"
    /\ exitCode = -1
    /\ stderr = <<>>
    /\ args = <<>>
    /\ scanned \in {<<line>> : line \in KeyValueLines}
    /\ dirstack = <<>>
    /\ track = 1
    /\ tracks = <<>>
    /\ heap = <<ZeroTrack>>
    /\ cols = 0
    /\ shuffled = <<>>
    /\ emitted = <<>>
    /\ uiStarted = FALSE
    /\ uiStatus = Running
    /\ waitErr = NoError
    /\ fields = <<>>
    /\ path = <<>>
    /\ pos = 0
    /\ found = FALSE
    /\ issued = <<>>
    /\ queue = <<>>
    /\ playing = 0
    /\ runs = 0

NextKeyValue == SplitLine

SpecKeyValue == InitKeyValue /\ [][NextKeyValue]_vars

(***************************************************************************)
(* formatDurationString on its own: a text is drawn and the function is    *)
(* applied to it once; fields holds the text it returned.                  *)
(***************************************************************************)
DigitSet == {Digits[d] : d \in 1..10}

DurationTexts ==
    UNION {[1..n -> DigitSet] : n \in 1..MaxDigits}
    \cup { <<>>, <<"x">>, <<"4", "x">>,
           MaxDurationSeconds,
           <<"0", "0">> \o MaxDurationSeconds,
           <<"9", "2", "2", "3", "3", "7", "2", "0", "3", "7">>,
           <<"1", "0", "0", "0", "0", "0", "0", "0", "0", "0", "0">> }

FormatDuration ==
    /\ pc = "duration"
    /\ fields' = <<formatDurationString(heap[1].Time)>>
    /\ pc' = "formatted"
    /\ UNCHANGED <<exitCode, stderr, args, parserVars, listVars, path, pos, found,
                   issued, queue, playing, runs>>

InitDuration ==
    /\ pc = "duration"
    /\ exitCode = -1
    /\ stderr = <<>>
    /\ args = <<>>
    /\ scanned = <<>>
    /\ dirstack = <<>>
    /\ track = 1
    /\ tracks = <<>>
    /\ heap \in {<<[ZeroTrack EXCEPT !.Time = tm]>> : tm \in DurationTexts}
    /\ cols = 0
    /\ shuffled = <<>>
    /\ emitted = <<>>
    /\ uiStarted = FALSE
    /\ uiStatus = Running
    /\ waitErr = NoError
    /\ fields = <<>>
    /\ path = <<>>
    /\ pos = 0
    /\ found = FALSE
    /\ issued = <<>>
    /\ queue = <<>>
    /\ playing = 0
    /\ runs = 0

NextDuration == FormatDuration

SpecDuration == InitDuration /\ [][NextDuration]_vars

(***************************************************************************)
(* C11: two tracks of the same artist stand in the list returned by        *)
(* groupByArtist in the order they had in its argument, whatever the order *)
(* of the groups.                                                          *)
(***************************************************************************)
\* The place of the record a in the list ts of distinct records.
PlaceIn(ts, a) == CHOOSE i \in 1..Len(ts) : ts[i] = a

C11_OrderWithinArtistKept ==
    pc = "grouped" =>
        \A i, j \in 1..Len(shuffled) :
            (i < j /\ ArtistAt(shuffled, i) = ArtistAt(shuffled, j)) =>
                /\ \E k \in 1..Len(tracks) : tracks[k] = shuffled[i]
                /\ \E k \in 1..Len(tracks) : tracks[k] = shuffled[j]
                /\ PlaceIn(tracks, shuffled[i]) < PlaceIn(tracks, shuffled[j])

\* Two tracks of one artist with another artist between them in the argument, and
\* the groups delivered in the other order than that of first appearance.
C11_Witness ==
    /\ pc = "grouped"
    /\ Len(tracks) >= 3
    /\ ArtistAt(tracks, 1) = ArtistAt(tracks, 3)
    /\ ArtistAt(tracks, 1) # ArtistAt(tracks, 2)
    /\ shuffled[1] = tracks[2]

(***************************************************************************)
(* C12: for the text of a whole number n of seconds formatDurationString   *)
(* returns (M:SS) with M = n div 60 and SS = n mod 60 when n < 3600, and   *)
(* (H:MM:SS) with H = n div 3600, MM = (n mod 3600) div 60, SS = n mod 60  *)
(* when n >= 3600.                                                         *)
(***************************************************************************)
DurText == heap[1].Time
DurResult == fields[1]
Placeholder == <<"(", "-", ":", "-", "-", ")">>
IsNumeral(s) == s # <<>> /\ \A i \in 1..Len(s) : IsDigit(s[i])
\* The numeral denotes a number the integers of TLC hold.
Small(s) == Len(StripZeros(s)) <= 9

ExpectedDuration(n) ==
    IF n < 3600
    THEN <<"(">> \o Itoa(n \div 60) \o <<":">> \o Pad2(n % 60) \o <<")">>
    ELSE <<"(">> \o Itoa(n \div 3600) \o <<":">> \o Pad2((n % 3600) \div 60)
         \o <<":">> \o Pad2(n % 60) \o <<")">>

\* The statement for every whole number: violated by 9223372037, for which
\* the placeholder is returned.
C12_EveryWholeNumberFormatted ==
    (pc = "formatted" /\ IsNumeral(DurText)) =>
        /\ DurResult # Placeholder
        /\ Small(DurText) => DurResult = ExpectedDuration(Atoi(DurText))

\* C12, amended: the same for every n <= 9223372036, the largest number of
\* seconds a time.Duration holds; for a larger n the placeholder (-:--) is
\* returned.
C12_FormattedUpToLargestDuration ==
    (pc = "formatted" /\ IsNumeral(DurText)) =>
        /\ (Small(DurText) => DurResult = ExpectedDuration(Atoi(DurText)))
        /\ (StripZeros(DurText) = MaxDurationSeconds =>
                DurResult = <<"(", "2", "5", "6", "2", "0", "4", "7", ":", "4", "7", ":",
                              "1", "6", ")">>)
        /\ (NumeralGreater(DurText, MaxDurationSeconds) <=> DurResult = Placeholder)

\* The boundary value 3600 has been formatted as one hour.
C12_Witness ==
    /\ pc = "formatted"
    /\ DurText = <<"3", "6", "0", "0">>
    /\ DurResult = <<"(", "1", ":", "0", "0", ":", "0", "0", ")">>

(***************************************************************************)
(* C13: when the selected line does not split into the expected number of  *)
(* fields the process ends with the split message and exit code 1, no mpc  *)
(* command (playlist, add, play) is issued, and the queue and the playing  *)
(* position stay as they were.                                             *)
(***************************************************************************)
C13_SplitFailureIssuesNothing ==
    [][ /\ (pc = "select" /\ ~SplitsAsExpected) =>
              /\ pc' = "exit"
              /\ exitCode' = 1
              /\ stderr' = msgSplit
              /\ issued' = <<>>
              /\ queue' = queue
              /\ playing' = playing
        /\ (pc' = "exit" /\ (SelectionRun /\ ~SplitsAsExpected)') =>
              (exitCode' = 1 /\ issued' = <<>>) ]_vars

\* A line of two fields has ended a process while a queue entry was playing.
C13_Witness ==
    /\ pc = "exit"
    /\ SelectionRun
    /\ ~SplitsAsExpected
    /\ stderr = msgSplit
    /\ exitCode = 1
    /\ playing > 0

(***************************************************************************)
(* C14: the description of a track is its Title, or the base name of its   *)
(* Filename without the extension when the Title is empty; it begins with  *)
(* the Artist and " - " exactly when the Artist is not empty and ends with *)
(* " {Album}" exactly when the Album is not empty.  Seen in the line       *)
(* written: when the description fits, the first field is the description  *)
(* with its delimiters as spaces, padded with spaces.                      *)
(***************************************************************************)
\* The name after the last separator, up to its last dot.
NameWithoutExtension(f) ==
    LET b == From(f, LastIndex(f, "/") + 1)
        d == LastIndex(b, ".")
    IN IF d = 0 THEN b ELSE SubSeq(b, 1, d - 1)

ExpectedDescription(t) ==
    (IF t.Artist # <<>> THEN t.Artist \o <<" ", "-", " ">> ELSE <<>>)
    \o (IF t.Title # <<>> THEN t.Title ELSE NameWithoutExtension(t.Filename))
    \o (IF t.Album # <<>> THEN <<" ", "{">> \o t.Album \o <<"}">> ELSE <<>>)

DelimitersAsSpaces(s) == [i \in 1..Len(s) |-> IF s[i] = delimiter THEN " " ELSE s[i]]

C14_DescriptionParts ==
    LET d == ExpectedDescription(FmtTrack) IN
    (emitted # <<>> /\ StringWidth(d) <= FmtBudget) =>
        SplitN(emitted[1], delimiter, ExpectedFields)[1]
            = DelimitersAsSpaces(d) \o Spaces(FmtBudget - StringWidth(d))

\* A line written whole for a track without Title and Artist, with an Album and
\* a Filename of two dots.
C14_Witness ==
    /\ emitted # <<>>
    /\ FmtTrack.Title = <<>>
    /\ FmtTrack.Artist = <<>>
    /\ FmtTrack.Album # <<>>
    /\ FmtTrack.Filename = <<"e", ".", "f", ".", "g">>
    /\ StringWidth(ExpectedDescription(FmtTrack)) < FmtBudget
    /\ SplitN(emitted[1], delimiter, ExpectedFields)[1][1] = "e"

(***************************************************************************)
(* C15: every track of the output list is a zero record when its           *)
(* song_begin line is read, so each of its Album, Artist, Date, Genre,     *)
(* Time and Title fields holds the value of the last line of that key      *)
(* between its song_begin line and its song_end line, and is empty when    *)
(* there is no such line; a metadata line outside every block shows up in  *)
(* no track of the list.                                                   *)
(***************************************************************************)
FieldOf(t, key) ==
    CASE key = kAlbum -> t.Album
      [] key = kArtist -> t.Artist
      [] key = kDate -> t.Date
      [] key = kGenre -> t.Genre
      [] key = kTime -> t.Time
      [] key = kTitle -> t.Title

\* The value of the last line of key among lines[lo..hi], empty when none.
LastValueIn(lines, lo, hi, key) ==
    LET hits == {i \in lo..hi : KeyOf(lines[i]) = key}
    IN IF hits = {} THEN <<>>
       ELSE ValueOf(lines[CHOOSE i \in hits : \A j \in hits : j <= i])

\* The place of the song_begin line that opens the block of the k-th track: the
\* first one after the song_end before it; the place of its song_end when the
\* block has no song_begin line.
SongBeginAt(lines, k) ==
    LET begins == {i \in (SongEndAt(lines, k - 1) + 1)..(SongEndAt(lines, k) - 1) :
                      KeyOf(lines[i]) = kSongBegin}
    IN IF begins = {} THEN SongEndAt(lines, k)
       ELSE CHOOSE i \in begins : \A j \in begins : i <= j

C15_FieldsFromOwnBlockOnly ==
    \A k \in 1..Len(tracks) : \A key \in MetadataKeys :
        FieldOf(heap[tracks[k]], key)
            = LastValueIn(scanned, SongBeginAt(scanned, k) + 1,
                          SongEndAt(scanned, k) - 1, key)

(***************************************************************************)
(* C16: the list pipeline starts fzf and writes the first line only after  *)
(* parse has returned; when parse aborts, on a read error or on an end     *)
(* line with no directory open, the run ends with exit code 1, fzf was     *)
(* never started and no line was written, also when tracks had already     *)
(* been appended to the list.                                              *)
(***************************************************************************)
ParseAborted ==
    \/ stderr = msgRead
    \/ \E n \in 1..Len(scanned) : Balance(scanned, n) < 0

C16_NoPartialResults ==
    /\ pc \in {"main", "list", "parse", "parsed", "grouped"} =>
          (~uiStarted /\ emitted = <<>>)
    /\ emitted # <<>> => uiStarted
    /\ ParseAborted =>
          /\ pc = "exit"
          /\ exitCode = 1
          /\ ~uiStarted
          /\ emitted = <<>>

\* parse aborted on an end line after a track had been appended.
C16_Witness ==
    /\ ParseAborted
    /\ stderr = msgCorrupted
    /\ Len(tracks) >= 1
    /\ pc = "exit"
    /\ ~uiStarted
    /\ emitted = <<>>

(***************************************************************************)
(* C17: keyValue splits a line at its first colon only.  As stated: when   *)
(* the line has no colon, or its first colon is its last codepoint, the    *)
(* whole line is the key and the value is empty; otherwise the key is the  *)
(* text before the first colon and the value is the text after that colon  *)
(* and the one space that follows it, verbatim.  (Read in favour of the    *)
(* statement: the one space is dropped when there is one.)                 *)
(***************************************************************************)
KvLine == scanned[1]
KvKey == fields[1]
KvValue == fields[2]
NoColon(l) == \A i \in 1..Len(l) : l[i] # ":"
FirstColon(l) == CHOOSE i \in 1..Len(l) : l[i] = ":" /\ \A j \in 1..(i - 1) : l[j] # ":"
\* The text of l after its first colon, without the one space after that colon.
AfterColonAndSpace(l) ==
    LET c == FirstColon(l)
    IN IF l[c + 1] = " " THEN SubSeq(l, c + 2, Len(l)) ELSE SubSeq(l, c + 1, Len(l))

C17_WholeLineWhenColonLast ==
    pc = "split" =>
        IF NoColon(KvLine) \/ FirstColon(KvLine) = Len(KvLine)
        THEN KvKey = KvLine /\ KvValue = <<>>
        ELSE /\ KvKey = SubSeq(KvLine, 1, FirstColon(KvLine) - 1)
             /\ KvValue = AfterColonAndSpace(KvLine)

\* C17, amended: when the line has no colon the whole line is the key and the
\* value is empty; when its first colon is its last codepoint the key is the text
\* before that colon and the value is empty; otherwise the key is the text before
\* the first colon and the value is the text after that colon, without the one
\* space that follows the colon when there is one, verbatim.
C17_SplitAtFirstColon ==
    pc = "split" =>
        IF NoColon(KvLine)
        THEN KvKey = KvLine /\ KvValue = <<>>
        ELSE /\ KvKey = SubSeq(KvLine, 1, FirstColon(KvLine) - 1)
             /\ KvValue = IF FirstColon(KvLine) = Len(KvLine) THEN <<>>
                          ELSE AfterColonAndSpace(KvLine)

\* A line whose value holds a colon has been split.
C17_Witness ==
    /\ pc = "split"
    /\ KvLine = <<"k", ":", " ", ":">>
    /\ KvKey = <<"k">>
    /\ KvValue = <<":">>

(***************************************************************************)
(* C18: a line whose key is none of directory, end, song_begin, song_end,  *)
(* Artist, Album, Date, Genre, Time, Title leaves the directory stack, the *)
(* track in progress and the output list as they were, and parse goes on.  *)
(***************************************************************************)
TenKeys ==
    {kDirectory, kEnd, kSongBegin, kSongEnd, kArtist, kAlbum, kDate, kGenre, kTime, kTitle}

LastScanned == scanned[Len(scanned)]

C18_UnknownKeyChangesNothing ==
    [][ (Len(scanned') = Len(scanned) + 1 /\ KeyOf(LastScanned') \notin TenKeys) =>
            /\ UNCHANGED <<dirstack, track, tracks, heap>>
            /\ UNCHANGED <<pc, exitCode, stderr>> ]_vars

\* An mtime line has been read with a directory open, a track appended and
\* another in progress.
C18_Witness ==
    /\ pc = "parse"
    /\ scanned # <<>>
    /\ KeyOf(LastScanned) = kMtime
    /\ dirstack # <<>>
    /\ tracks # <<>>
    /\ heap[track] # ZeroTrack

(***************************************************************************)
(* C19: a process started as _queue <line> never issues a play command: it *)
(* issues add for the path when no queue entry equals the path, which      *)
(* appends the path, and otherwise leaves the queue alone; the playing     *)
(* position is the same before and after.                                  *)
(***************************************************************************)
QueueOnlyRun ==
    /\ Len(args) = 2
    /\ args[1] = cmdQueueArg
    /\ pc \in {"main", "select", "find", "add", "play", "return"}

C19_QueueOnlyAddsWhenAbsent ==
    [][ QueueOnlyRun =>
            /\ playing' = playing
            /\ \A i \in 1..Len(issued') : issued'[i].cmd # "play"
            /\ (pc = "find" /\ pc' # "exit") =>
                  pc' = IF InQueue(path, queue) THEN "return" ELSE "add"
            /\ (pc = "add" /\ pc' # "exit") =>
                  (queue' = Append(queue, path) /\ pc' = "return")
            /\ pc # "add" => queue' = queue ]_vars

(***************************************************************************)
(* C20: parse returns without an error when the stream ends after any      *)
(* number of lines, none included, inside a song block or with directories *)
(* open, unless an end line came with no directory open: the only aborts   *)
(* are that one and a read error.  The list returned holds one track for   *)
(* each song_end line read, none for the empty stream, and never the track *)
(* in progress.                                                            *)
(***************************************************************************)
C20_TruncatedStreamParses ==
    /\ pc = "parse" => ENABLED ScanEof
    /\ pc = "exit" =>
          \/ stderr = msgRead
          \/ stderr = msgCorrupted /\ Balance(scanned, Len(scanned)) < 0
    /\ pc = "parsed" =>
          /\ exitCode = -1
          /\ stderr = <<>>
          /\ \A n \in 1..Len(scanned) : Balance(scanned, n) >= 0
          /\ Len(tracks) = SongEnds(scanned)
          /\ \A k \in 1..Len(tracks) : tracks[k] # track
          /\ scanned = <<>> => tracks = <<>>

\* The stream ended inside a song block with a directory open, after one track.
C20_Witness ==
    /\ pc = "parsed"
    /\ dirstack # <<>>
    /\ KeyOf(LastScanned) = kSongBegin
    /\ heap[track].Filename # <<>>
    /\ Len(tracks) = 1

(***************************************************************************)
(* C21: whatever the Title, Artist, Album and Filename of a track hold,    *)
(* the delimiter included and repeated, the description field of the line  *)
(* written holds no delimiter: the first delimiter of the line is the one  *)
(* the formatter put before the duration, so that the line is the field,   *)
(* the delimiter, the duration, the delimiter and the Path.                *)
(***************************************************************************)
C21_FirstDelimiterIsTheFormatters ==
    emitted # <<>> =>
        LET line == emitted[1]
            first == Index(line, delimiter)
        IN /\ first > 0
           /\ first = Len(line) - Len(FmtTrack.Path) - 1 - Len(FmtDuration)
           /\ SubSeq(line, first + 1, first + Len(FmtDuration)) = FmtDuration
           /\ line[first + Len(FmtDuration) + 1] = delimiter
           /\ \A i \in 1..(first - 1) : line[i] # delimiter

\* A line written whole for a title that holds the delimiter twice.
C21_Witness ==
    /\ emitted # <<>>
    /\ FmtTrack.Title = <<"ENSP", "ENSP", "v">>
    /\ StringWidth(FmtInfo) < FmtBudget
    /\ emitted[1][1] = " "
    /\ emitted[1][2] = " "

(***************************************************************************)
(* C22: when the width of the formatter is at most the length of the       *)
(* duration text, so that nothing or less is left for the description, a   *)
(* line is written all the same: it is the description cut down to the     *)
(* marker alone (to nothing for an empty description and no column left),  *)
(* the delimiter, the duration, the delimiter and the whole Path.          *)
(***************************************************************************)
NarrowWidth == FmtWidth <= Len(FmtDuration)

C22_NarrowWidthStillFormats ==
    NarrowWidth =>
        /\ pc # "exit"
        /\ exitCode = -1
        /\ emitted # <<>> =>
              /\ emitted[1] =
                    (IF FmtInfo = <<>> /\ FmtBudget = 0 THEN <<>> ELSE ellipsis)
                    \o <<delimiter>> \o FmtDuration \o <<delimiter>> \o FmtTrack.Path

\* A line written for a width below zero and a Path that holds the delimiter.
C22_Witness ==
    /\ emitted # <<>>
    /\ FmtBudget < 0
    /\ FmtWidth < 0
    /\ Holds(FmtTrack.Path, delimiter)
    /\ SubSeq(emitted[1], 1, Len(ellipsis)) = ellipsis

(***************************************************************************)
(* C23: the list returned by groupByArtist is a permutation of its         *)
(* argument: it has the same length, and every track of the argument       *)
(* stands in it at exactly one place, so none is lost, none is there twice *)
(* and no place is left empty; also for the empty list and for tracks with *)
(* the same metadata.                                                      *)
(***************************************************************************)
PlacesOf(ts, a) == {i \in 1..Len(ts) : ts[i] = a}

C23_GroupedIsPermutation ==
    pc = "grouped" =>
        /\ Len(shuffled) = Len(tracks)
        /\ \A k \in 1..Len(tracks) : Cardinality(PlacesOf(shuffled, tracks[k])) = 1
        /\ \A i \in 1..Len(shuffled) : PlacesOf(tracks, shuffled[i]) # {}

\* Three tracks, two of them with the same metadata and apart in the argument,
\* returned in another order.
C23_Witness ==
    /\ pc = "grouped"
    /\ Len(tracks) >= 3
    /\ heap[tracks[1]] = heap[tracks[3]]
    /\ heap[tracks[1]] # heap[tracks[2]]
    /\ shuffled # tracks
    /\ Len(shuffled) = Len(tracks)

====
